---- MODULE Spec2Model ----
(***************************************************************************)
(* A model of litecollections.LiteSet: a set whose members live in one     *)
(* sqlite table, reached through ONE connection and ONE cursor per object. *)
(* Every statement a method runs goes through that cursor, so a statement  *)
(* started while an iteration of the same object is suspended replaces the *)
(* iteration's pending rows.  Writes are pending until commit().           *)
(***************************************************************************)
EXTENDS Integers, Sequences, FiniteSets, TLC

\* ------------------------------------------------------------------ bounds
MaxVal == 2
MaxLen == 1
MaxSeqLen == 2
MaxMore == 1

\* ------------------------------------------------------------------ values
Values == 1..MaxVal
\* an object hash() rejects, such as a list
Unhashable == 0
Elems == Values \cup {Unhashable}

\* the None that pop() starts from
None == Unhashable - 1

hashable(obj) == obj # Unhashable

\* the codec of litecollections.loader: value -> JSON text and back
dump(v) == ToString(v)
load(t) == CHOOSE v \in Values : dump(v) = t

Range(s) == {s[i] : i \in 1..Len(s)}
SeqsUpTo(S, n) == UNION {[1..k -> S] : k \in 0..n}

\* ----------------------------------------------------------------- objects
\* A is the set the operations are called on, B a second LiteSet used as the
\* other operand, N the LiteSet an operation constructs while it runs.
SetIds == {"A", "B"}
AllIds == SetIds \cup {"N"}
MemoryPath == ":memory:"
db_path == [s \in AllIds |-> IF s = "A" THEN "a.db" ELSE MemoryPath]
BackupTargets == {MemoryPath, "a.db", "bk.db"}

\* LiteCollection.__init__: a fresh connection with the schema applied
NewStore ==
    [tbl |-> <<>>, cur |-> <<>>, auto |-> TRUE, durable |-> {},
     intx |-> FALSE, log |-> <<>>, open |-> TRUE]
\* the slot of N before anything is constructed
NoStore == [NewStore EXCEPT !.open = FALSE]

\* ----------------------------------------------------------------- sources
\* The iterable handed to an operation: a LiteSet, a native list, or a
\* generator that can be traversed once and may raise after its last item.
NoSrc == [kind |-> "none", id |-> "-", items |-> <<>>, raises |-> FALSE]
SetSrc(s) == [kind |-> "set", id |-> s, items |-> <<>>, raises |-> FALSE]
ListSrc(xs) == [kind |-> "list", id |-> "-", items |-> xs, raises |-> FALSE]
GenSrc(xs, r) == [kind |-> "gen", id |-> "-", items |-> xs, raises |-> r]
Sources ==
    {SetSrc(s) : s \in SetIds}
      \cup {ListSrc(xs) : xs \in SeqsUpTo(Elems, MaxLen)}
      \cup {GenSrc(xs, r) : xs \in SeqsUpTo(Values, MaxLen), r \in BOOLEAN}

\* The sized collections handed to issubset and issuperset: a LiteSet, or a
\* list that may name a value more than once.
Sized ==
    {SetSrc(s) : s \in SetIds}
      \cup {ListSrc(xs) : xs \in SeqsUpTo(Values, MaxSeqLen)}

\* The operands handed to difference(other_set, *more_sets): the first one
\* and up to MaxMore more, each a LiteSet, the empty list or a list of one
\* value (an operand is only asked whether it holds a value).
Operands ==
    {SetSrc(s) : s \in SetIds}
      \cup {ListSrc(<<>>)} \cup {ListSrc(<<v>>) : v \in Values}
OperandSeqs == UNION {[1..k -> Operands] : k \in 1..(1 + MaxMore)}

\* The positional arguments of LiteSet(*set_args): none, one iterable (a
\* list may name a value more than once), or two.
SeedSources == Sources \cup {ListSrc(xs) : xs \in SeqsUpTo(Elems, MaxSeqLen)}
ArgLists ==
    {<<>>} \cup {<<src>> : src \in SeedSources}
      \cup {<<SetSrc(s), SetSrc(t)>> : s \in SetIds, t \in SetIds}

\* What a `with` block does with the set before the block ends: one call,
\* or nothing.
Bodies ==
    {[name |-> "with add", v |-> v, src |-> NoSrc] : v \in Elems}
      \cup {[name |-> "with remove", v |-> v, src |-> NoSrc] : v \in Elems}
      \cup {[name |-> "with update", v |-> None, src |-> src] : src \in Sources}
      \cup {[name |-> n, v |-> None, src |-> NoSrc] :
               n \in {"with pop", "with clear", "with pass"}}

\* ------------------------------------------------------------------- state
\* st: the two LiteSet objects; bk: the file a backup writes; pc: where the
\* caller is; last: the call that has just returned (or never will).
VARIABLES st, bk, pc, last
vars == <<st, bk, pc, last>>

\* The interpreter state while one method runs: the objects, the state of
\* the generator argument, the pending exception, the return value and the
\* items the caller's for loop has received (out).
World(s0, b0, src) ==
    [st |-> [s \in AllIds |-> IF s = "N" THEN NoStore
                              ELSE [s0[s] EXCEPT !.log = <<>>]],
     gen |-> [items |-> src.items, raises |-> src.kind = "gen" /\ src.raises],
     genRaised |-> FALSE,
     bk |-> b0,
     err |-> "none", retb |-> FALSE, retv |-> None, out |-> <<>>]

Raise(w, e) == IF w.err = "none" THEN [w EXCEPT !.err = e] ELSE w

\* ------------------------------------------------------- connection, cursor
\* cursor.execute(): the cursor now holds the rows of the new statement
execute(w, s, rows) == [w EXCEPT !.st[s].cur = rows]
\* an INSERT or DELETE: opens a transaction, yields no rows
executeWrite(w, s, newtbl) ==
    [w EXCEPT !.st[s].tbl = newtbl, !.st[s].cur = <<>>, !.st[s].intx = TRUE,
              !.st[s].log = Append(@, "w")]
commit(w, s) ==
    [w EXCEPT !.st[s].durable = Range(w.st[s].tbl), !.st[s].intx = FALSE,
              !.st[s].log = Append(@, "c")]

Without(tbl, t) == SelectSeq(tbl, LAMBDA x : x # t)

\* -------------------------------------------------------- LiteSet methods
\* for count, in query: return count == 1
fetchCount(q, self) ==
    [q EXCEPT !.st[self].cur = Tail(@),
              !.retb = (Head(q.st[self].cur)[1] = 1)]

contains(w, self, value) ==
    IF w.err # "none" THEN w
    ELSE IF ~hashable(value) THEN Raise(w, "AssertionError")
    ELSE fetchCount(
             execute(w, self,
                 << <<IF dump(value) \in Range(w.st[self].tbl) THEN 1 ELSE 0>> >>),
             self)

\* for cnt, in query: return cnt
fetchLen(q, self) ==
    [q EXCEPT !.st[self].cur = Tail(@), !.retv = Head(q.st[self].cur)[1]]

len(w, self) ==
    IF w.err # "none" THEN w
    ELSE fetchLen(execute(w, self, << <<Len(w.st[self].tbl)>> >>), self)

\* a mutation that commits whatever the durability mode is
autocommittedAlways(x, self) == commit(x, self)

\* a mutation that leaves its write pending whatever the durability mode is
autocommittedNever(x, self) == x

\* if self._autocommit: self.commit()
autocommitted(x, self) == IF x.st[self].auto THEN commit(x, self) ELSE x

\* a table without the UNIQUE ON CONFLICT IGNORE constraint
insertAlways(tbl, t) == Append(tbl, t)

\* value TEXT UNIQUE ON CONFLICT IGNORE
insertOrIgnore(tbl, t) == IF t \in Range(tbl) THEN tbl ELSE Append(tbl, t)

add(w, self, value) ==
    IF w.err # "none" THEN w
    ELSE IF ~hashable(value) THEN Raise(w, "AssertionError")
    ELSE autocommitted(
             executeWrite(w, self, insertOrIgnore(w.st[self].tbl, dump(value))),
             self)

\* a clear whose DELETE removes no row
clearKeepsRows(w, self) ==
    IF w.err # "none" THEN w
    ELSE autocommitted(executeWrite(w, self, w.st[self].tbl), self)

clear(w, self) ==
    IF w.err # "none" THEN w
    ELSE autocommitted(executeWrite(w, self, <<>>), self)

discard(w, self, value) ==
    IF w.err # "none" THEN w
    ELSE IF ~hashable(value) THEN Raise(w, "AssertionError")
    ELSE autocommitted(
             executeWrite(w, self, Without(w.st[self].tbl, dump(value))), self)

\* a remove() that does not raise for an absent value
removeNoRaise(c, self, value) ==
    IF c.err # "none" THEN c ELSE discard(c, self, value)

\* if value in self: self.discard(value) / else: raise KeyError(value)
removeChecked(c, self, value) ==
    IF c.err # "none" THEN c
    ELSE IF c.retb THEN discard(c, self, value)
    ELSE Raise(c, "KeyError")

remove(w, self, value) == removeChecked(contains(w, self, value), self, value)

\* ---------------------------------------------------------------- iteration
\* What next() on an iterator gives: the world after it, the iterator after
\* it, and either a value or StopIteration (done).
Yield(w, it, v) == [w |-> w, it |-> it, val |-> v, done |-> FALSE]
Stop(w, it) == [w |-> w, it |-> it, val |-> None, done |-> TRUE]

\* iter(src).  LiteSet.__iter__ is a generator function: its SELECT runs at
\* the first next(), not here.
BaseIt(src) == [kind |-> src.kind, src |-> src, pos |-> 1, started |-> FALSE]

\* SELECT value FROM value_store: the rows in rowid order
selectValues(tbl) == [i \in 1..Len(tbl) |-> <<tbl[i]>>]

\* for value, in query: yield load(value)
iterFetch(q, it) ==
    IF q.st[it.src.id].cur = <<>> THEN Stop(q, it)
    ELSE Yield([q EXCEPT !.st[it.src.id].cur = Tail(@)], it,
               load(Head(q.st[it.src.id].cur)[1]))

iterNext(w, it) ==
    iterFetch(IF it.started THEN w
              ELSE execute(w, it.src.id, selectValues(w.st[it.src.id].tbl)),
              [it EXCEPT !.started = TRUE])

\* a generator argument: its items once, then StopIteration or its exception
genNext(w, it) ==
    IF w.gen.items # <<>>
    THEN Yield([w EXCEPT !.gen.items = Tail(@)], it, Head(w.gen.items))
    ELSE IF w.gen.raises
    THEN Stop([Raise(w, "SourceError") EXCEPT !.gen.raises = FALSE,
                                              !.genRaised = TRUE], it)
    ELSE Stop(w, it)

listNext(w, it) ==
    IF it.pos > Len(it.src.items) THEN Stop(w, it)
    ELSE Yield(w, [it EXCEPT !.pos = @ + 1], it.src.items[it.pos])

BaseNext(w, it) ==
    IF w.err # "none" THEN Stop(w, it)
    ELSE CASE it.kind = "set" -> iterNext(w, it)
           [] it.kind = "gen" -> genNext(w, it)
           [] OTHER -> listNext(w, it)

\* `i in src`: LiteSet.__contains__ for a LiteSet, a scan for a list, and for
\* a generator a scan that consumes it up to and including the first match.
FirstAt(xs, i) ==
    CHOOSE k \in 1..Len(xs) : xs[k] = i /\ \A j \in 1..(k - 1) : xs[j] # i

in(w, src, i) ==
    IF w.err # "none" THEN w
    ELSE CASE src.kind = "set" -> contains(w, src.id, i)
           [] src.kind = "gen" ->
                IF i \in Range(w.gen.items)
                THEN [w EXCEPT !.retb = TRUE,
                               !.gen.items = SubSeq(@, FirstAt(@, i) + 1, Len(@))]
                ELSE IF w.gen.raises
                THEN [Raise(w, "SourceError") EXCEPT !.gen.items = <<>>,
                          !.gen.raises = FALSE, !.genRaised = TRUE]
                ELSE [w EXCEPT !.retb = FALSE, !.gen.items = <<>>]
           [] OTHER -> [w EXCEPT !.retb = i \in Range(src.items)]

\* any(i in s for s in all_sets): stops at the first set that has i
RECURSIVE anyIn(_, _, _)
anyInStep(c, rest, i) ==
    IF c.err # "none" \/ c.retb THEN c ELSE anyIn(c, rest, i)

anyIn(w, all_sets, i) ==
    IF w.err # "none" THEN w
    ELSE IF all_sets = <<>> THEN [w EXCEPT !.retb = FALSE]
    ELSE anyInStep(in(w, Head(all_sets), i), Tail(all_sets), i)

\* (i for i in base if [not] any(i in s for s in opnds))
FilterIt(base, keepIfIn, opnds) ==
    [kind |-> "filter", base |-> BaseIt(base), keepIfIn |-> keepIfIn,
     opnds |-> opnds]

RECURSIVE FilterNext(_, _)
FilterKeep(c, it, val) ==
    IF c.err # "none" THEN Stop(c, it)
    ELSE IF c.retb = it.keepIfIn THEN Yield(c, it, val)
    ELSE FilterNext(c, it)

FilterStep(n, it) ==
    IF n.w.err # "none" \/ n.done THEN Stop(n.w, [it EXCEPT !.base = n.it])
    ELSE FilterKeep(anyIn(n.w, it.opnds, n.val), [it EXCEPT !.base = n.it],
                    n.val)

FilterNext(w, it) == FilterStep(BaseNext(w, it.base), it)

\* itertools.chain(first, second)
ChainIt(first, second) ==
    [kind |-> "chain", first |-> first, second |-> second, onSecond |-> FALSE]

ChainSecond(b, it) ==
    [b EXCEPT !.it = [it EXCEPT !.second = b.it, !.onSecond = TRUE]]

ChainFirst(a, it) ==
    IF a.w.err # "none" \/ ~a.done
    THEN [a EXCEPT !.it = [it EXCEPT !.first = a.it]]
    ELSE ChainSecond(FilterNext(a.w, it.second), it)

ChainNext(w, it) ==
    IF it.onSecond THEN ChainSecond(FilterNext(w, it.second), it)
    ELSE ChainFirst(FilterNext(w, it.first), it)

next(w, it) ==
    CASE it.kind = "filter" -> FilterNext(w, it)
      [] it.kind = "chain" -> ChainNext(w, it)
      [] OTHER -> BaseNext(w, it)

\* for v in it: self.add(v)
RECURSIVE forAdd(_, _, _)
forAddStep(n, self) ==
    IF n.w.err # "none" \/ n.done THEN n.w
    ELSE forAdd(add(n.w, self, n.val), self, n.it)

forAdd(w, self, it) == forAddStep(next(w, it), self)

\* for v in it: self.discard(v)
RECURSIVE forDiscard(_, _, _)
forDiscardStep(n, self) ==
    IF n.w.err # "none" \/ n.done THEN n.w
    ELSE forDiscard(discard(n.w, self, n.val), self, n.it)

forDiscard(w, self, it) == forDiscardStep(next(w, it), self)

\* a pop() that returns a member without discarding it
popPeek(n, self) == [n.w EXCEPT !.retv = n.val]

\* for i in self: return_value = i; break / self.discard(return_value)
popTake(n, self) == [discard(n.w, self, n.val) EXCEPT !.retv = n.val]

popNonEmpty(l, self) ==
    IF l.err # "none" THEN l
    ELSE IF l.retv = 0 THEN Raise(l, "EmptyLiteSet")
    ELSE popTake(BaseNext(l, BaseIt(SetSrc(self))), self)

pop(w, self) == popNonEmpty(len(w, self), self)

\* ---------------------------------------------------------- bulk operations
\* a restore placed after the loop instead of in a finally clause
restoreOnlyOnSuccess(body, self, autocommit_before) ==
    IF body.err = "none" THEN [body EXCEPT !.st[self].auto = autocommit_before]
    ELSE body

\* finally: self._autocommit = autocommit_before
restoreAutocommit(body, self, autocommit_before) ==
    [body EXCEPT !.st[self].auto = autocommit_before]

\* if self._autocommit: self.commit() -- after the try statement, so it is
\* reached only when the try block raised nothing
trailingCommit(fin, self) ==
    IF fin.err = "none" /\ fin.st[self].auto THEN commit(fin, self) ELSE fin

update(w, self, it) ==
    IF w.err # "none" THEN w
    ELSE trailingCommit(
             restoreAutocommit(
                 forAdd([w EXCEPT !.st[self].auto = FALSE], self, it),
                 self, w.st[self].auto),
             self)

\* LiteSet(it): a new object in slot N, seeded through update
construct(w, it) ==
    IF w.err # "none" THEN w
    ELSE update([w EXCEPT !.st["N"] = NewStore], "N", it)

\* a constructor that does not count its positional arguments
LiteSetAnyArgs(w, set_args) ==
    IF w.err # "none" THEN w
    ELSE IF set_args = <<>> THEN [w EXCEPT !.st["N"] = NewStore]
    ELSE construct(w, BaseIt(set_args[1]))

\* LiteSet(*set_args): the count of the arguments is tested before
\* LiteCollection.__init__ opens the connection
LiteSet(w, set_args) ==
    IF w.err # "none" THEN w
    ELSE IF Len(set_args) \notin {0, 1}
    THEN Raise(w, "InvalidPositionalArgCount")
    ELSE IF set_args = <<>> THEN [w EXCEPT !.st["N"] = NewStore]
    ELSE construct(w, BaseIt(set_args[1]))

close(w, s) ==
    IF w.err # "none" THEN w
    ELSE [commit(w, s) EXCEPT !.st[s].cur = <<>>, !.st[s].open = FALSE]

\* a union that returns LiteSet(another_set) as it is
unionOtherOnly(output, self) == output

\* output.update(self)
unionSeeded(output, self) ==
    IF output.err # "none" THEN output
    ELSE update(output, "N", BaseIt(SetSrc(self)))

\* output = LiteSet(another_set)
union(w, self, another_set) ==
    unionSeeded(construct(w, BaseIt(another_set)), self)

intersection(w, self, another_set) ==
    construct(w, FilterIt(another_set, TRUE, <<SetSrc(self)>>))

\* a difference that looks at other_set and not at more_sets
differenceFirstOnly(w, self, all_sets) ==
    construct(w, FilterIt(SetSrc(self), FALSE, <<Head(all_sets)>>))

difference(w, self, all_sets) ==
    construct(w, FilterIt(SetSrc(self), FALSE, all_sets))

symmetric_difference(w, self, other_set) ==
    construct(w, ChainIt(FilterIt(SetSrc(self), FALSE, <<other_set>>),
                         FilterIt(other_set, FALSE, <<SetSrc(self)>>)))

difference_update(w, self, items_to_remove) ==
    IF w.err # "none" THEN w
    ELSE trailingCommit(
             restoreAutocommit(
                 forDiscard([w EXCEPT !.st[self].auto = FALSE], self,
                            BaseIt(items_to_remove)),
                 self, w.st[self].auto),
             self)

intersection_update(w, self, items_to_intersect) ==
    IF w.err # "none" THEN w
    ELSE trailingCommit(
             restoreAutocommit(
                 forDiscard(
                     difference([w EXCEPT !.st[self].auto = FALSE], self,
                                <<items_to_intersect>>),
                     self, BaseIt(SetSrc("N"))),
                 self, w.st[self].auto),
             self)

symmetric_difference_update(w, self, other_set) ==
    IF w.err # "none" THEN w
    ELSE trailingCommit(
             restoreAutocommit(
                 close(
                     update(
                         clear(
                             symmetric_difference(
                                 [w EXCEPT !.st[self].auto = FALSE], self,
                                 other_set),
                             self),
                         self, BaseIt(SetSrc("N"))),
                     "N"),
                 self, w.st[self].auto),
             self)

\* --------------------------------------------------------------- traversal
\* What the caller's loop body does with the same set between two items.
Probes == {"none", "contains", "len"}

probe(w, self, q, v) ==
    CASE q = "contains" -> contains(w, self, v)
      [] q = "len" -> len(w, self)
      [] OTHER -> w

\* for x in self: out.append(x); <probe>
RECURSIVE traverse(_, _, _, _)
traverseStep(n, self, q) ==
    IF n.w.err # "none" \/ n.done THEN n.w
    ELSE traverse(probe([n.w EXCEPT !.out = Append(@, n.val)], self, q, n.val),
                  self, n.it, q)

traverse(w, self, it, q) == traverseStep(next(w, it), self, q)

\* ------------------------------------------------------------------- scope
runBody(w, self, b) ==
    CASE b.name = "with add" -> add(w, self, b.v)
      [] b.name = "with remove" -> remove(w, self, b.v)
      [] b.name = "with update" -> update(w, self, BaseIt(b.src))
      [] b.name = "with pop" -> pop(w, self)
      [] b.name = "with clear" -> clear(w, self)
      [] OTHER -> w

\* an __exit__ that closes the set only when the block raised nothing
exitScopeOnSuccess(body, self) == close(body, self)

\* __exit__(exc_type, exc_value, traceback): self.close(), whatever the block
\* raised; it returns None, so the exception goes on to the caller
exitScope(body, self) ==
    [close([body EXCEPT !.err = "none"], self) EXCEPT !.err = body.err]

\* ----------------------------------------------------------------- queries
\* len(another_set): a LiteSet counts its rows, a list its items, and a
\* generator has no len()
lenOf(w, src) ==
    IF w.err # "none" THEN w
    ELSE CASE src.kind = "set" -> len(w, src.id)
           [] src.kind = "gen" -> Raise(w, "TypeError")
           [] OTHER -> [w EXCEPT !.retv = Len(src.items)]

\* all(i in container for i in it): stops at the first i that is not in it
RECURSIVE allIn(_, _, _)
allInStep(c, it, container) ==
    IF c.err # "none" \/ ~c.retb THEN c ELSE allIn(c, it, container)

allInItem(n, container) ==
    IF n.w.err # "none" THEN n.w
    ELSE IF n.done THEN [n.w EXCEPT !.retb = TRUE]
    ELSE allInStep(in(n.w, container, n.val), n.it, container)

allIn(w, it, container) == allInItem(next(w, it), container)

\* an issubset that compares the sizes and nothing else
issubsetBySize(k, self, another_set, l) ==
    IF k.err # "none" THEN k ELSE [k EXCEPT !.retb = (l <= k.retv)]

\* elif l > len(another_set): return False / else: return all(...)
issubsetSized(k, self, another_set, l) ==
    IF k.err # "none" THEN k
    ELSE IF l > k.retv THEN [k EXCEPT !.retb = FALSE]
    ELSE allIn(k, BaseIt(SetSrc(self)), another_set)

\* l = len(self) / if l == 0: return True
issubsetLen(l, self, another_set) ==
    IF l.err # "none" THEN l
    ELSE IF l.retv = 0 THEN [l EXCEPT !.retb = TRUE]
    ELSE issubsetSized(lenOf(l, another_set), self, another_set, l.retv)

issubset(w, self, another_set) == issubsetLen(len(w, self), self, another_set)

\* elif len(self) < len(another_set): the right-hand len
issupersetCompare(k, self, another_set, l) ==
    IF k.err # "none" THEN k
    ELSE IF l < k.retv THEN [k EXCEPT !.retb = FALSE]
    ELSE allIn(k, BaseIt(another_set), SetSrc(self))

\* elif len(self) < len(another_set): the left-hand len
issupersetSized(l, self, another_set) ==
    IF l.err # "none" THEN l
    ELSE issupersetCompare(lenOf(l, another_set), self, another_set, l.retv)

\* if len(another_set) == 0: return True
issupersetLen(k, self, another_set) ==
    IF k.err # "none" THEN k
    ELSE IF k.retv = 0 THEN [k EXCEPT !.retb = TRUE]
    ELSE issupersetSized(len(k, self), self, another_set)

issuperset(w, self, another_set) ==
    issupersetLen(lenOf(w, another_set), self, another_set)

\* ------------------------------------------------------------------ backup
\* sqlite3's Connection.backup retries for as long as the source is locked,
\* and the source's own open transaction keeps it locked: the call never
\* returns ("hang") when writes are pending.
backup(w, self, backup_path) ==
    IF w.err # "none" THEN w
    ELSE IF backup_path = MemoryPath THEN Raise(w, "InvalidBackupPath")
    ELSE IF backup_path = db_path[self]
    \* the message of AlreadyActiveDBPath names db_path, which backup() does
    \* not define: building the message raises NameError
    THEN Raise(w, "NameError")
    ELSE IF w.st[self].intx
    THEN Raise([w EXCEPT !.bk.exists = TRUE], "hang")
    ELSE [w EXCEPT !.bk = [exists |-> TRUE, data |-> w.st[self].tbl]]

\* LiteSet(db_path=db_path) on the file the backup has just written: a new
\* connection whose table holds the rows of the file
openBackup(b) ==
    IF b.err # "none" THEN b
    ELSE [b EXCEPT !.st["N"] = [NewStore EXCEPT !.tbl = b.bk.data,
                                                !.durable = Range(b.bk.data)]]

copy(w, self, path) ==
    IF w.err # "none" THEN w
    ELSE IF path = MemoryPath THEN construct(w, BaseIt(SetSrc(self)))
    ELSE openBackup(backup(w, self, path))

\* ------------------------------------------------------------------- calls
NoCall ==
    [op |-> "none", self |-> "-", v |-> None, src |-> NoSrc, target |-> "-",
     pre |-> [s \in SetIds |-> NewStore], preBk |-> [exists |-> FALSE, data |-> <<>>],
     err |-> "none", retb |-> FALSE, retv |-> None, new |-> NoStore,
     genRaised |-> FALSE, args |-> <<>>, probe |-> "none", out |-> <<>>]

Init ==
    /\ st = [s \in SetIds |-> NewStore]
    /\ bk = [exists |-> FALSE, data |-> <<>>]
    /\ pc = "idle"
    /\ last = NoCall

\* the caller makes one call; the whole method runs.  args are the operands
\* of a call that takes several, q what the caller does between two
\* items of a traversal.
CallWith(op, self, v, src, target, args, q, w) ==
    /\ pc = "idle"
    /\ pc' = IF w.err = "hang" THEN "blocked" ELSE "returned"
    /\ st' = [s \in SetIds |-> w.st[s]]
    /\ bk' = w.bk
    /\ last' = [op |-> op, self |-> self, v |-> v, src |-> src,
                target |-> target, pre |-> st, preBk |-> bk, err |-> w.err,
                retb |-> w.retb, retv |-> w.retv, new |-> w.st["N"],
                genRaised |-> w.genRaised, args |-> args, probe |-> q,
                out |-> w.out]

\* a call with one operand at most and nothing done between two items
Call(op, self, v, src, target, w) ==
    /\ pc = "idle"
    /\ pc' = IF w.err = "hang" THEN "blocked" ELSE "returned"
    /\ st' = [s \in SetIds |-> w.st[s]]
    /\ bk' = w.bk
    /\ last' = [op |-> op, self |-> self, v |-> v, src |-> src,
                target |-> target, pre |-> st, preBk |-> bk, err |-> w.err,
                retb |-> w.retb, retv |-> w.retv, new |-> w.st["N"],
                genRaised |-> w.genRaised, args |-> <<>>, probe |-> "none",
                out |-> w.out]

W(src) == World(st, bk, src)

Add(s, v) == Call("add", s, v, NoSrc, "-", add(W(NoSrc), s, v))
Discard(s, v) == Call("discard", s, v, NoSrc, "-", discard(W(NoSrc), s, v))
Remove(v) == Call("remove", "A", v, NoSrc, "-", remove(W(NoSrc), "A", v))
Pop == Call("pop", "A", None, NoSrc, "-", pop(W(NoSrc), "A"))
Clear == Call("clear", "A", None, NoSrc, "-", clear(W(NoSrc), "A"))
SetAutocommit(value) ==
    Call("autocommit", "A", None, NoSrc, "-",
         [W(NoSrc) EXCEPT !.st["A"].auto = value])
Commit == Call("commit", "A", None, NoSrc, "-", commit(W(NoSrc), "A"))
Update(src) ==
    Call("update", "A", None, src, "-", update(W(src), "A", BaseIt(src)))
DifferenceUpdate(src) ==
    Call("difference_update", "A", None, src, "-",
         difference_update(W(src), "A", src))
IntersectionUpdate(src) ==
    Call("intersection_update", "A", None, src, "-",
         intersection_update(W(src), "A", src))
SymmetricDifferenceUpdate(src) ==
    Call("symmetric_difference_update", "A", None, src, "-",
         symmetric_difference_update(W(src), "A", src))
Intersection(src) ==
    Call("intersection", "A", None, src, "-", intersection(W(src), "A", src))
SymmetricDifference(src) ==
    Call("symmetric_difference", "A", None, src, "-",
         symmetric_difference(W(src), "A", src))
Backup(s, target) ==
    Call("backup", s, None, NoSrc, target, backup(W(NoSrc), s, target))
Issubset(s, src) ==
    Call("issubset", s, None, src, "-", issubset(W(src), s, src))
Issuperset(s, src) ==
    Call("issuperset", s, None, src, "-", issuperset(W(src), s, src))
Iterate(q) ==
    CallWith("iterate", "A", None, NoSrc, "-", <<>>, q,
             traverse(W(NoSrc), "A", BaseIt(SetSrc("A")), q))
Union(src) == Call("union", "A", None, src, "-", union(W(src), "A", src))
Difference(all_sets) ==
    CallWith("difference", "A", None, NoSrc, "-", all_sets, "none",
             difference(W(NoSrc), "A", all_sets))
FirstArg(set_args) == IF set_args = <<>> THEN NoSrc ELSE set_args[1]
Construct(set_args) ==
    CallWith("LiteSet", "N", None, FirstArg(set_args), "-", set_args, "none",
             LiteSet(W(FirstArg(set_args)), set_args))
Copy(target) ==
    Call("copy", "A", None, NoSrc, target, copy(W(NoSrc), "A", target))

\* the caller's last use of a set: when the call is over the set is closed
\* and the caller does not touch it again
Ending(op, self, v, src, w) ==
    /\ pc = "idle"
    /\ pc' = "closed"
    /\ st' = [s \in SetIds |-> w.st[s]]
    /\ bk' = w.bk
    /\ last' = [op |-> op, self |-> self, v |-> v, src |-> src,
                target |-> "-", pre |-> st, preBk |-> bk, err |-> w.err,
                retb |-> w.retb, retv |-> w.retv, new |-> w.st["N"],
                genRaised |-> w.genRaised, args |-> <<>>, probe |-> "none",
                out |-> w.out]

Close(s) == Ending("close", s, None, NoSrc, close(W(NoSrc), s))
\* with A: <body>
Scoped(b) ==
    Ending(b.name, "A", b.v, b.src, exitScope(runBody(W(b.src), "A", b), "A"))

\* the caller takes the result (or catches the exception) and goes on
Return ==
    /\ pc = "returned"
    /\ pc' = "idle"
    /\ st' = [s \in SetIds |-> [st[s] EXCEPT !.log = <<>>]]
    /\ last' = NoCall
    /\ UNCHANGED bk

Next ==
    \/ \E s \in SetIds, v \in Elems : Add(s, v)
    \/ \E s \in SetIds, v \in Elems : Discard(s, v)
    \/ \E v \in Elems : Remove(v)
    \/ Pop
    \/ Clear
    \/ \E b \in BOOLEAN : SetAutocommit(b)
    \/ Commit
    \/ \E src \in Sources : Update(src)
    \/ \E src \in Sources : DifferenceUpdate(src)
    \/ \E src \in Sources : IntersectionUpdate(src)
    \/ \E src \in Sources : SymmetricDifferenceUpdate(src)
    \/ \E src \in Sources : Intersection(src)
    \/ \E src \in Sources : SymmetricDifference(src)
    \/ \E s \in SetIds, t \in BackupTargets : Backup(s, t)
    \/ \E t \in BackupTargets : Copy(t)
    \/ \E s \in SetIds, src \in Sized : Issubset(s, src)
    \/ \E s \in SetIds, src \in Sized : Issuperset(s, src)
    \/ \E q \in Probes : Iterate(q)
    \/ \E src \in Sources : Union(src)
    \/ \E all_sets \in OperandSeqs : Difference(all_sets)
    \/ \E set_args \in ArgLists : Construct(set_args)
    \/ \E s \in SetIds : Close(s)
    \/ \E b \in Bodies : Scoped(b)
    \/ Return

Spec == Init /\ [][Next]_vars

\* the single-element operations alone: a caller that never uses a bulk
\* operation or a backup
NextSingle ==
    \/ \E s \in SetIds, v \in Elems : Add(s, v)
    \/ \E s \in SetIds, v \in Elems : Discard(s, v)
    \/ \E v \in Elems : Remove(v)
    \/ Pop
    \/ Clear
    \/ \E b \in BOOLEAN : SetAutocommit(b)
    \/ Commit
    \/ Return

SpecSingle == Init /\ [][NextSingle]_vars

\* the single-element operations, and then the end of the set's life: a
\* close(), or a `with` block around a last call
NextScope ==
    \/ \E s \in SetIds, v \in Elems : Add(s, v)
    \/ \E s \in SetIds, v \in Elems : Discard(s, v)
    \/ \E v \in Elems : Remove(v)
    \/ Pop
    \/ Clear
    \/ \E b \in BOOLEAN : SetAutocommit(b)
    \/ Commit
    \/ \E s \in SetIds : Close(s)
    \/ \E b \in Bodies : Scoped(b)
    \/ Return

SpecScope == Init /\ [][NextScope]_vars

\* the bulk operations and the constructions, over sets built with add
NextBulk ==
    \/ \E s \in SetIds, v \in Elems : Add(s, v)
    \/ \E b \in BOOLEAN : SetAutocommit(b)
    \/ \E src \in Sources : Update(src)
    \/ \E src \in Sources : DifferenceUpdate(src)
    \/ \E src \in Sources : IntersectionUpdate(src)
    \/ \E src \in Sources : SymmetricDifferenceUpdate(src)
    \/ \E src \in Sources : Intersection(src)
    \/ \E src \in Sources : SymmetricDifference(src)
    \/ Return

SpecBulk == Init /\ [][NextBulk]_vars

\* the operations that read a set and leave its contents alone, over sets
\* built with add
NextQuery ==
    \/ \E s \in SetIds, v \in Values : Add(s, v)
    \/ \E s \in SetIds, src \in Sized : Issubset(s, src)
    \/ \E s \in SetIds, src \in Sized : Issuperset(s, src)
    \/ \E src \in Sources : Union(src)
    \/ \E all_sets \in OperandSeqs : Difference(all_sets)
    \/ \E set_args \in ArgLists : Construct(set_args)
    \/ Return

SpecQuery == Init /\ [][NextQuery]_vars

\* ------------------------------------------------------------ observations
\* what the caller sees with `v in s`, len(s) and set(s), now and before the
\* call that has just returned
containsNow(s, v) == contains(World(st, bk, NoSrc), s, v).retb
sizeNow(s) == len(World(st, bk, NoSrc), s).retv
containsBefore(s, v) == contains(World(last.pre, last.preBk, NoSrc), s, v).retb
sizeBefore(s) == len(World(last.pre, last.preBk, NoSrc), s).retv
Members(store) == {load(t) : t \in Range(store.tbl)}
\* the members of the operand of the call, as they were when it was made
SrcMembers == IF last.src.kind = "set" THEN Members(last.pre[last.src.id])
              ELSE Range(last.src.items)

BulkOps == {"update", "difference_update", "intersection_update",
            "symmetric_difference_update"}
Returned(ops) == pc = "returned" /\ last.op \in ops
\* the commits in a log: none, or exactly one and it is the last event
OneTrailingCommit(log, wanted) ==
    /\ \A i \in 1..Len(log) : log[i] = "c" => (i = Len(log) /\ wanted)
    /\ wanted => (log # <<>> /\ log[Len(log)] = "c")

\* ------------------------------------------------------------------ claims
\* C1: when a bulk operation ends, normally or by an error raised partway
\* through, the durability mode is what it was before the call, and an error
\* raised by the source or by an unencodable element reaches the caller.
C1_ModeRestored ==
    Returned(BulkOps) =>
        /\ st["A"].auto = last.pre["A"].auto
        /\ (last.genRaised <=> last.err = "SourceError")
        /\ (last.op # "intersection_update"
              /\ Unhashable \in Range(last.src.items)
                => last.err = "AssertionError")
        /\ last.err \in {"none", "SourceError", "AssertionError"}

C1_Witness ==
    /\ Returned(BulkOps)
    /\ last.err # "none"
    /\ ~last.pre["A"].auto
    /\ st["A"].tbl # last.pre["A"].tbl

\* C2: a bulk operation that raises partway through keeps the mutations it
\* made, and commits them when the mode before the call was on (a single
\* trailing commit on the exceptional path too), not when it was off.
C2_PartialDurable ==
    Returned(BulkOps) /\ last.err # "none" =>
        /\ st["A"].auto = last.pre["A"].auto
        /\ OneTrailingCommit(st["A"].log, last.pre["A"].auto)
        /\ last.pre["A"].auto =>
              (~st["A"].intx /\ st["A"].durable = Range(st["A"].tbl))

\* C3: a bulk operation that completes normally commits nothing on its own
\* connection while its mutations run, then exactly once if the mode before
\* the call was on and never if it was off; a set constructed from an
\* iterable is seeded the same way.
C3_SingleTrailingCommit ==
    /\ Returned(BulkOps) /\ last.err = "none" =>
          OneTrailingCommit(st["A"].log, last.pre["A"].auto)
    /\ Returned({"intersection", "symmetric_difference"}) /\ last.err = "none" =>
          /\ OneTrailingCommit(last.new.log, TRUE)
          /\ OneTrailingCommit(st["A"].log, FALSE)

C3_Witness ==
    /\ Returned({"symmetric_difference_update"})
    /\ last.err = "none"
    /\ last.pre["A"].auto
    /\ Len(st["A"].log) >= 3

\* C4: after add(v), v is contained; the size grows by one if v was absent
\* and not at all if it was present; every other member stays; a second
\* add(v) changes nothing.
C4_Add ==
    Returned({"add"}) /\ hashable(last.v) =>
        /\ last.err = "none"
        /\ containsNow(last.self, last.v)
        /\ sizeNow(last.self) = sizeBefore(last.self)
              + (IF containsBefore(last.self, last.v) THEN 0 ELSE 1)
        /\ \A u \in Values : containsBefore(last.self, u) => containsNow(last.self, u)
        /\ add(World(st, bk, NoSrc), last.self, last.v).st[last.self].tbl
              = st[last.self].tbl

C4_Witness ==
    /\ Returned({"add"})
    /\ hashable(last.v)
    /\ containsBefore(last.self, last.v)
    /\ sizeNow(last.self) >= 2

\* C5: for v absent, discard(v) changes nothing and raises nothing, and
\* remove(v) raises KeyError and changes nothing; for v present each removes
\* exactly v, so that a second remove(v) raises KeyError.
C5_DiscardRemove ==
    /\ Returned({"discard"}) /\ hashable(last.v) =>
          /\ last.err = "none"
          /\ Members(st[last.self]) = Members(last.pre[last.self]) \ {last.v}
          /\ ~containsBefore(last.self, last.v) =>
                st[last.self].tbl = last.pre[last.self].tbl
    /\ Returned({"remove"}) /\ hashable(last.v) =>
          IF containsBefore("A", last.v)
          THEN /\ last.err = "none"
               /\ Members(st["A"]) = Members(last.pre["A"]) \ {last.v}
               /\ sizeNow("A") = sizeBefore("A") - 1
               /\ remove(World(st, bk, NoSrc), "A", last.v).err = "KeyError"
          ELSE /\ last.err = "KeyError"
               /\ st["A"].tbl = last.pre["A"].tbl

C5_Witness ==
    /\ Returned({"remove"})
    /\ last.err = "KeyError"
    /\ sizeNow("A") >= 1

\* C6: pop() on a non-empty set returns a value that was a member and removes
\* exactly it; on an empty set it raises EmptyLiteSet and leaves it empty.
C6_Pop ==
    Returned({"pop"}) =>
        IF sizeBefore("A") = 0
        THEN last.err = "EmptyLiteSet" /\ sizeNow("A") = 0
        ELSE /\ last.err = "none"
             /\ containsBefore("A", last.retv)
             /\ ~containsNow("A", last.retv)
             /\ sizeNow("A") = sizeBefore("A") - 1
             /\ Members(st["A"]) = Members(last.pre["A"]) \ {last.retv}

C6_Witness ==
    /\ Returned({"pop"})
    /\ last.err = "none"
    /\ sizeBefore("A") >= 2

\* C7: after difference_update(iterable), the set holds exactly its previous
\* members that are not members of iterable, the iterable being a native
\* collection, another LiteSet or the set itself.
C7_DifferenceUpdate ==
    Returned({"difference_update"}) /\ last.err = "none" =>
        Members(st["A"]) = Members(last.pre["A"]) \ SrcMembers

\* C8: intersection(other) returns a new set holding exactly the values that
\* are members of both, other being another LiteSet, a native iterable or
\* the set itself.
C8_Intersection ==
    Returned({"intersection"}) /\ last.err = "none" =>
        Members(last.new) = Members(last.pre["A"]) \cap SrcMembers

\* C9: symmetric_difference(other) returns a new set holding exactly the
\* values that are members of exactly one of the two, whether other is a
\* LiteSet, a native collection or an iterable that can be traversed once.
C9_SymmetricDifference ==
    Returned({"symmetric_difference"}) /\ last.err = "none" =>
        Members(last.new) = (Members(last.pre["A"]) \ SrcMembers)
                              \cup (SrcMembers \ Members(last.pre["A"]))

\* C10: backup(target) raises InvalidBackupPath for ':memory:' and
\* AlreadyActiveDBPath for the set's own location; nothing is written and
\* the contents are unchanged.
C10_BackupRejects ==
    Returned({"backup"}) /\ last.target \in {MemoryPath, db_path[last.self]} =>
        /\ last.err = IF last.target = MemoryPath THEN "InvalidBackupPath"
                      ELSE "AlreadyActiveDBPath"
        /\ bk = last.preBk
        /\ st[last.self].tbl = last.pre[last.self].tbl

\* the interpreter state once the call that has just returned has handed its
\* new set to the caller
WorldWithNew == [World(st, bk, NoSrc) EXCEPT !.st["N"] = last.new]
MutatingOps == {"add", "discard", "remove", "pop", "clear"} \cup BulkOps

\* C11: copy(location) returns a set with the contents the original has at
\* that time, through the in-memory path and through the backup path; from
\* then on a mutation or a close of either set leaves the other's contents
\* as they are (the copy is a LiteSet with a connection of its own, as B is).
C11_CopyIndependent ==
    /\ last.op = "copy" /\ last.target \in BackupTargets \ {db_path["A"]} =>
          /\ pc = "returned"
          /\ last.err = "none"
          /\ last.new.open
          /\ Members(last.new) = Members(last.pre["A"])
          /\ st["A"].tbl = last.pre["A"].tbl
          /\ \A v \in Values :
                /\ add(WorldWithNew, "A", v).st["N"].tbl = last.new.tbl
                /\ discard(WorldWithNew, "A", v).st["N"].tbl = last.new.tbl
                /\ add(WorldWithNew, "N", v).st["A"].tbl = st["A"].tbl
                /\ discard(WorldWithNew, "N", v).st["A"].tbl = st["A"].tbl
          /\ clear(WorldWithNew, "A").st["N"].tbl = last.new.tbl
          /\ close(WorldWithNew, "A").st["N"] = last.new
          /\ clear(WorldWithNew, "N").st["A"].tbl = st["A"].tbl
          /\ close(WorldWithNew, "N").st["A"].tbl = st["A"].tbl
    /\ Returned(MutatingOps) =>
          \A s \in SetIds \ {last.self} : st[s].tbl = last.pre[s].tbl

\* the world as it was when the call that has just returned was made
WorldBefore == World(last.pre, last.preBk, NoSrc)

\* C12: for two LiteSets, the same object included, A.issubset(B) equals
\* B.issuperset(A), and both say whether every member of A is a member of B.
C12_SubsetSupersetDual ==
    /\ Returned({"issubset"}) /\ last.src.kind = "set" =>
          /\ last.err = "none"
          /\ last.retb = (Members(last.pre[last.self]) \subseteq SrcMembers)
          /\ last.retb
                = issuperset(WorldBefore, last.src.id, SetSrc(last.self)).retb
    /\ Returned({"issuperset"}) /\ last.src.kind = "set" =>
          /\ last.err = "none"
          /\ last.retb = (SrcMembers \subseteq Members(last.pre[last.self]))
          /\ last.retb
                = issubset(WorldBefore, last.src.id, SetSrc(last.self)).retb

C12_Witness ==
    /\ Returned({"issubset"})
    /\ last.src.kind = "set"
    /\ last.src.id # last.self
    /\ sizeBefore(last.self) >= 1
    /\ Len(last.pre[last.src.id].tbl) >= sizeBefore(last.self)
    /\ ~last.retb

\* a sequence that lists every member of S exactly once
ExactlyOnce(out, S) == Range(out) = S /\ Len(out) = Cardinality(S)

\* C13: a traversal of a set that is not mutated meanwhile yields every
\* member exactly once, also when the caller tests membership or asks the
\* size of the same set between two items; a fresh traversal afterwards
\* starts over the full set.
C13_TraversalComplete ==
    Returned({"iterate"}) =>
        /\ last.err = "none"
        /\ ExactlyOnce(last.out, Members(last.pre["A"]))
        /\ ExactlyOnce(
               traverse(World(st, bk, NoSrc), "A", BaseIt(SetSrc("A")), "none").out,
               Members(st["A"]))

\* the contents of A and of B are what they were before the call
ContentsUnchanged == \A s \in SetIds : st[s].tbl = last.pre[s].tbl

\* C14: union(other) returns a new set whose members are exactly the values
\* in self or in other and leaves self and other as they were, for other a
\* LiteSet or a native collection; for disjoint operands the size of the
\* result is the sum of the sizes, and the result is a superset of both.
C14_Union ==
    Returned({"union"}) =>
        /\ ContentsUnchanged
        /\ (last.src.kind \in {"set", "list"}
              /\ Unhashable \notin Range(last.src.items) => last.err = "none")
        /\ last.err = "none" =>
              /\ Members(last.new) = Members(last.pre["A"]) \cup SrcMembers
              /\ len(WorldWithNew, "N").retv
                    = Cardinality(Members(last.pre["A"]) \cup SrcMembers)
              /\ (Members(last.pre["A"]) \cap SrcMembers = {} =>
                    len(WorldWithNew, "N").retv
                      = sizeBefore("A") + Cardinality(SrcMembers))
              /\ issuperset(WorldWithNew, "N", SetSrc("A")).retb
              /\ (last.src.kind = "set" =>
                    issuperset(WorldWithNew, "N", last.src).retb)

C14_Witness ==
    /\ Returned({"union"})
    /\ last.err = "none"
    /\ last.src = SetSrc("B")
    /\ sizeBefore("A") >= 1
    /\ sizeBefore("B") >= 1
    /\ Members(last.pre["A"]) \cap SrcMembers = {}

\* the members of one operand, as they were when the call was made
OperandMembers(src) ==
    IF src.kind = "set" THEN Members(last.pre[src.id]) ELSE Range(src.items)

\* C15: difference(other, *more) returns a new set holding exactly the
\* members of self that are in none of the operands, each operand a LiteSet
\* (self included: the result is then empty) or a native collection; self is
\* left unchanged.
C15_Difference ==
    Returned({"difference"}) =>
        /\ last.err = "none"
        /\ Members(last.new)
              = Members(last.pre["A"])
                  \ UNION {OperandMembers(last.args[i]) : i \in 1..Len(last.args)}
        /\ (SetSrc("A") \in Range(last.args) => len(WorldWithNew, "N").retv = 0)
        /\ ContentsUnchanged

C15_Witness ==
    /\ Returned({"difference"})
    /\ Len(last.args) >= 2
    /\ last.args[1].kind = "list"
    /\ last.args[2] = SetSrc("B")
    /\ last.new.tbl # <<>>
    /\ OperandMembers(last.args[1]) = {}
    /\ Len(last.new.tbl) < sizeBefore("A")

\* C16: after intersection_update(iterable) the set holds exactly its
\* previous members that are members of iterable; after
\* symmetric_difference_update(other) exactly the values that were in one of
\* the two and not in both; a distinct other operand is left unchanged.
C16_UpdateInPlace ==
    /\ Returned({"intersection_update"}) /\ last.err = "none" =>
          /\ Members(st["A"]) = Members(last.pre["A"]) \cap SrcMembers
          /\ st["B"].tbl = last.pre["B"].tbl
    /\ Returned({"symmetric_difference_update"}) /\ last.err = "none" =>
          /\ Members(st["A"])
                = (Members(last.pre["A"]) \cup SrcMembers)
                    \ (Members(last.pre["A"]) \cap SrcMembers)
          /\ st["B"].tbl = last.pre["B"].tbl

\* add called on each element of xs in order
RECURSIVE addEach(_, _, _)
addEach(w, s, xs) ==
    IF xs = <<>> THEN w ELSE addEach(add(w, s, Head(xs)), s, Tail(xs))

\* the elements the operand of the call yields, in order
SrcItems ==
    IF last.src.kind = "set"
    THEN [i \in 1..Len(last.pre[last.src.id].tbl)
            |-> load(last.pre[last.src.id].tbl[i])]
    ELSE last.src.items

\* the new set and the error of the call are those of the adds in ref
SameAsAdds(ref) ==
    /\ last.new.tbl = ref.st["N"].tbl
    /\ last.err = IF ref.err # "none" THEN ref.err
                  ELSE IF last.genRaised THEN "SourceError" ELSE "none"
    /\ last.err = "none" =>
          /\ Members(last.new) = Range(SrcItems)
          /\ len(WorldWithNew, "N").retv = Cardinality(Range(SrcItems))

\* C17: LiteSet() is empty; LiteSet(a, b) raises InvalidPositionalArgCount
\* before a connection is opened; LiteSet(iterable) has the contents that
\* add called on each element in order gives (duplicates collapse, an
\* unhashable element raises what add raises).
C17_Construct ==
    Returned({"LiteSet"}) =>
        /\ ContentsUnchanged
        /\ CASE Len(last.args) = 0 ->
                    /\ last.err = "none"
                    /\ last.new.open
                    /\ len(WorldWithNew, "N").retv = 0
               [] Len(last.args) = 1 ->
                    SameAsAdds(addEach([WorldBefore EXCEPT !.st["N"] = NewStore],
                                       "N", SrcItems))
               [] OTHER ->
                    /\ last.err = "InvalidPositionalArgCount"
                    /\ ~last.new.open

C17_Witness ==
    /\ Returned({"LiteSet"})
    /\ Len(last.args) = 1
    /\ last.src.kind = "list"
    /\ Len(last.src.items) = 2
    /\ last.src.items[1] = last.src.items[2]
    /\ last.err = "none"
    /\ Len(last.new.tbl) = 1

\* The reference: a Python set taken through the same call.  RefBefore is
\* what it holds when it agrees with the LiteSet before the call.
SingleOps == {"add", "discard", "remove", "pop", "clear"}
RefBefore == {v \in Values : containsBefore(last.self, v)}
RefAfter ==
    CASE last.op = "add" -> RefBefore \cup {last.v}
      [] last.op = "clear" -> {}
      [] last.op = "pop" -> RefBefore \ {last.retv}
      [] OTHER -> RefBefore \ {last.v}
RefRaises ==
    \/ last.op = "remove" /\ last.v \notin RefBefore
    \/ last.op = "pop" /\ RefBefore = {}

\* C18: through any sequence of add, discard, remove, pop and clear, a
\* LiteSet and a reference set taken through the same calls agree on
\* contains(v) for every v and on size(); after clear() the size is 0 and
\* nothing is contained.
C18_RefinesSet ==
    Returned(SingleOps) /\ hashable(last.v) =>
        /\ (last.err # "none") = RefRaises
        /\ \A v \in Values : containsNow(last.self, v) = (v \in RefAfter)
        /\ sizeNow(last.self) = Cardinality(RefAfter)
        /\ sizeBefore(last.self) = Cardinality(RefBefore)
        /\ (last.op = "pop" /\ ~RefRaises => last.retv \in RefBefore)
        /\ (last.op = "clear" => sizeNow(last.self) = 0)

C18_Witness ==
    /\ Returned({"clear"})
    /\ sizeBefore("A") >= 2
    /\ sizeNow("A") = 0
    /\ ~last.pre["A"].auto

\* C19: issuperset(other) is true iff every member of other is a member of
\* self, for other a LiteSet or a list of hashable values, a list that names
\* a value more than once included.
C19_Issuperset ==
    Returned({"issuperset"}) =>
        /\ last.err = "none"
        /\ last.retb = (SrcMembers \subseteq Members(last.pre[last.self]))

\* C20: add, discard, clear, remove and pop commit when they complete iff
\* the durability mode is on: with the mode on no write is left pending,
\* with the mode off none of them commits and the writes stay pending until
\* commit() or close().
C20_CommitIffModeOn ==
    /\ Returned(SingleOps) /\ last.err = "none" =>
          /\ st[last.self].auto = last.pre[last.self].auto
          /\ IF st[last.self].auto
             THEN /\ OneTrailingCommit(st[last.self].log, TRUE)
                  /\ ~st[last.self].intx
                  /\ st[last.self].durable = Range(st[last.self].tbl)
             ELSE /\ OneTrailingCommit(st[last.self].log, FALSE)
                  /\ st[last.self].intx
                  /\ st[last.self].durable = last.pre[last.self].durable
          /\ close(World(st, bk, NoSrc), last.self).st[last.self].durable
                = Range(st[last.self].tbl)
    /\ Returned({"commit"}) =>
          /\ ~st["A"].intx
          /\ st["A"].durable = Range(st["A"].tbl)

C20_Witness ==
    /\ Returned({"pop"})
    /\ last.err = "none"
    /\ ~st["A"].auto
    /\ st["A"].intx
    /\ st["A"].durable # Range(st["A"].tbl)

\* C21: when symmetric_difference_update ends, by return or by an exception,
\* the scratch set it built to hold the symmetric difference has been closed,
\* and the set itself is open.
C21_ScratchClosed ==
    Returned({"symmetric_difference_update"}) =>
        /\ ~last.new.open
        /\ st["A"].open

\* the call made inside the `with` block that has just ended, run on the
\* state the block started from
BodyBefore ==
    runBody(World(last.pre, last.preBk, last.src), "A",
            [name |-> last.op, v |-> last.v, src |-> last.src])

\* C22: close() commits the pending writes and then releases the
\* connection; the end of a `with` block closes the set whether the block
\* returned or raised, and an exception of the block reaches the caller.
\* Writes made with the durability mode off are durable once the set is
\* closed, and the set is never left open after the block.
C22_CloseCommits ==
    pc = "closed" =>
        /\ ~st[last.self].open
        /\ ~st[last.self].intx
        /\ st[last.self].durable = Range(st[last.self].tbl)
        /\ st[last.self].log # <<>>
        /\ st[last.self].log[Len(st[last.self].log)] = "c"
        /\ \A s \in SetIds \ {last.self} :
              st[s].open /\ st[s].tbl = last.pre[s].tbl
        /\ IF last.op = "close"
           THEN /\ last.err = "none"
                /\ st[last.self].tbl = last.pre[last.self].tbl
           ELSE /\ last.err = BodyBefore.err
                /\ st["A"].tbl = BodyBefore.st["A"].tbl
                /\ st["A"].auto = BodyBefore.st["A"].auto

C22_Witness ==
    /\ pc = "closed"
    /\ last.op \in {"with remove", "with update"}
    /\ last.err # "none"
    /\ ~last.pre["A"].auto
    /\ last.pre["A"].intx
    /\ last.pre["A"].durable # Range(st["A"].tbl)
    /\ st["A"].tbl # <<>>

====
